---- MODULE Spec2Model ----
(***************************************************************************)
(* Model of the secureChat canister (src/src/index.ts): three stable maps  *)
(* (userChatIDs, chatData, unreadMessages) and the update/query handlers   *)
(* that act on them.  The canister runs each call to completion, so every  *)
(* handler is one atomic action.                                           *)
(***************************************************************************)
EXTENDS Integers, Sequences, FiniteSets, TLC

(* ---- bounds of the model ---- *)
\* generateRandomID draws from 0..MaxID (the source draws from 0..2^53-2).
MaxID == 2
\* The calls are explored up to MaxUpdates calls that change a map.
MaxUpdates == 5

(* ---- program constants, scaled down from 20 and 200 ---- *)
MAXIMUM_SESSIONS == 1
MAX_MSG_PER_SESSION == 1

\* The principals that call the canister, and the texts they send.
Principals == {"A", "B"}
Texts == {"hi"}
\* The placeholders of the call record: no principal, no text, no id.
NoPrincipal == "-"
NoText == ""
NoID == -1

VARIABLES
    userChatIDs,     \* Principal -> Vec<Session>              (StableBTreeMap 0)
    chatData,        \* nat64     -> Vec<Message>              (StableBTreeMap 1)
    unreadMessages,  \* Principal -> Vec<MessageNotification>  (StableBTreeMap 2)
    now,             \* the value ic.time() returns
    updates,         \* the number of calls so far that changed a map
    last             \* the last completed call: handler, arguments, reply

vars == <<userChatIDs, chatData, unreadMessages, now, updates, last>>
store == <<userChatIDs, chatData, unreadMessages>>

(* ---- StableBTreeMap: a finite map is a function on its present keys ---- *)
EmptyMap == << >>
containsKey(m, k) == k \in DOMAIN m
insert(m, k, v) == [x \in (DOMAIN m) \cup {k} |-> IF x = k THEN v ELSE m[x]]
remove(m, k) == [x \in (DOMAIN m) \ {k} |-> m[x]]

(* ---- records ---- *)
Session(id, user) == [id |-> id, user |-> user]
\* The record of lines 229-234 with its first two fields exchanged.
SwappedMessage(sender, receiver, messageText, messageTime) ==
    [sender |-> receiver, receiver |-> sender,
     messageText |-> messageText, messageTime |-> messageTime]
Message(sender, receiver, messageText, messageTime) ==
    [sender |-> sender, receiver |-> receiver,
     messageText |-> messageText, messageTime |-> messageTime]
MessageNotification(sender, id, messageTime) ==
    [sender |-> sender, id |-> id, messageTime |-> messageTime]

(* ---- replies ---- *)
Ok(v) == [tag |-> "Ok", val |-> v]
Err(e) == [tag |-> "Err", val |-> e]

\* The observed call: the handler, ic.caller(), its arguments, the session id
\* the handler generated, removed or resolved (NoID when none), and its reply.
Call(op, caller, friend, text, id, reply) ==
    [op |-> op, caller |-> caller, friend |-> friend, text |-> text,
     id |-> id, reply |-> reply]

(* ---- generateRandomID: Math.floor(Math.random() * INTEGER_LIMIT) ---- *)
\* Math.random() is in [0, 1), so the floor ranges over 0 .. INTEGER_LIMIT-1,
\* zero included.
generateRandomID == 0..MaxID

(* ---- createSession, lines 74-108 ---- *)
\* Line 90: the capacity test of the else branch.
SessionsExceeded(sessions) == Len(sessions) > MAXIMUM_SESSIONS

\* The check of lines 97-101 left out.
NoDuplicateCheck(sessions, friendPrincipal) == FALSE

\* Lines 97-101: some session of the list already names friendPrincipal.
DuplicateSession(sessions, friendPrincipal) ==
    \E i \in 1..Len(sessions) : sessions[i].user = friendPrincipal

\* The loop of lines 77-79 left out: the first draw is taken.
FirstDraw(cd, newID) == TRUE

\* Lines 77-79: the loop ends with a drawn id that is no key of chatData.
LoopEnds(cd, newID) == ~containsKey(cd, newID)

\* The handler with the insert of line 106 moved up, before the two checks:
\* a rejected call leaves the new, empty Message Log entry behind.
createSessionEarlyInsert(caller, friendPrincipal, newID) ==
    /\ newID \in generateRandomID
    /\ LoopEnds(chatData, newID)
    /\ chatData' = insert(chatData, newID, << >>)
    /\ LET newSession == Session(newID, friendPrincipal) IN
       IF ~containsKey(userChatIDs, caller)
       THEN /\ userChatIDs' = insert(userChatIDs, caller, <<newSession>>)
            /\ last' = Call("createSession", caller, friendPrincipal, NoText, newID, Ok(TRUE))
       ELSE IF SessionsExceeded(userChatIDs[caller])
       THEN /\ UNCHANGED userChatIDs
            /\ last' = Call("createSession", caller, friendPrincipal, NoText, NoID,
                            Err("MaxSessionsReached"))
       ELSE IF DuplicateSession(userChatIDs[caller], friendPrincipal)
       THEN /\ UNCHANGED userChatIDs
            /\ last' = Call("createSession", caller, friendPrincipal, NoText, NoID,
                            Err("DuplicateAttempt"))
       ELSE /\ userChatIDs' = insert(userChatIDs, caller,
                                     Append(userChatIDs[caller], newSession))
            /\ last' = Call("createSession", caller, friendPrincipal, NoText, newID, Ok(TRUE))
    /\ UNCHANGED unreadMessages

\* Lines 76-79: newID is what the loop ends with (the loop does not end while
\* every id it draws is a key).
createSession(caller, friendPrincipal, newID) ==
    /\ newID \in generateRandomID
    /\ LoopEnds(chatData, newID)
    /\ LET newSession == Session(newID, friendPrincipal) IN
       IF ~containsKey(userChatIDs, caller)
       THEN /\ userChatIDs' = insert(userChatIDs, caller, <<newSession>>)
            /\ chatData' = insert(chatData, newID, << >>)
            /\ last' = Call("createSession", caller, friendPrincipal, NoText, newID, Ok(TRUE))
       ELSE IF SessionsExceeded(userChatIDs[caller])
       THEN /\ UNCHANGED <<userChatIDs, chatData>>
            /\ last' = Call("createSession", caller, friendPrincipal, NoText, NoID,
                            Err("MaxSessionsReached"))
       ELSE IF DuplicateSession(userChatIDs[caller], friendPrincipal)
       THEN /\ UNCHANGED <<userChatIDs, chatData>>
            /\ last' = Call("createSession", caller, friendPrincipal, NoText, NoID,
                            Err("DuplicateAttempt"))
       ELSE /\ userChatIDs' = insert(userChatIDs, caller,
                                     Append(userChatIDs[caller], newSession))
            /\ chatData' = insert(chatData, newID, << >>)
            /\ last' = Call("createSession", caller, friendPrincipal, NoText, newID, Ok(TRUE))
    /\ UNCHANGED unreadMessages

(* ---- removeSession, lines 115-162 ---- *)
\* Lines 123-130: the filter keeps the sessions that do not name friendPrincipal.
SessionsWithout(sessions, friendPrincipal) ==
    SelectSeq(sessions, LAMBDA session : session.user # friendPrincipal)

\* The assignment of line 125 outside the test of line 124: removedID ends as
\* the id of the last session of the list, dropped or kept.
RECURSIVE LastSeenID(_, _, _)
LastSeenID(sessions, friendPrincipal, removedID) ==
    IF sessions = << >> THEN removedID
    ELSE LastSeenID(Tail(sessions), friendPrincipal, Head(sessions).id)

\* Lines 122-126: removedID starts at 0 and takes the id of every dropped
\* session in turn, so it ends as the id of the last one.
RECURSIVE RemovedID(_, _, _)
RemovedID(sessions, friendPrincipal, removedID) ==
    IF sessions = << >> THEN removedID
    ELSE RemovedID(Tail(sessions), friendPrincipal,
                   IF Head(sessions).user = friendPrincipal
                   THEN Head(sessions).id ELSE removedID)

\* userChatIDs.get hands back freshly decoded objects: element i of the
\* returned array is a new heap object, tagged here by its reference i >= 1.
Decoded(sessions) ==
    [i \in 1..Len(sessions) |->
        [ref |-> i, id |-> sessions[i].id, user |-> sessions[i].user]]

\* Lines 141-144 and 180-183: the object literal is yet another heap object;
\* its reference is none of the decoded ones.
LiteralSession(id, user) == [ref |-> 0, id |-> id, user |-> user]

\* Array.prototype.includes compares with SameValueZero, which on objects is
\* identity of reference, not equality of fields.
SameValueZero(a, b) == a.ref = b.ref
includes(arr, obj) == \E i \in 1..Len(arr) : SameValueZero(arr[i], obj)

\* The filter with its comparison inverted: it keeps the notifications of id.
NotificationsOfId(notifications, id) ==
    SelectSeq(notifications, LAMBDA notification : notification.id = id)

\* Lines 150 and 155 (189, 194, 308): the filter keeps the notifications of
\* other ids.
NotificationsWithout(notifications, id) ==
    SelectSeq(notifications, LAMBDA notification : notification.id # id)

\* Lines 148-152 and 153-157: filter the queue of one principal, if it has one.
PurgeQueue(um, principal, id) ==
    IF containsKey(um, principal)
    THEN insert(um, principal, NotificationsWithout(um[principal], id))
    ELSE um

\* Lines 136-159: the cleanup after the caller's list was stored.  ucids is
\* userChatIDs as the lookup of line 136 sees it; the result is the pair
\* <<chatData, unreadMessages>> after the cleanup.
RemoveCleanup(ucids, cd, um, caller, friendPrincipal, removedID) ==
    IF ~containsKey(ucids, friendPrincipal)
    THEN <<remove(cd, removedID), um>>
    ELSE IF ~includes(Decoded(ucids[friendPrincipal]),
                      LiteralSession(removedID, caller))
    THEN <<remove(cd, removedID),
           PurgeQueue(PurgeQueue(um, friendPrincipal, removedID), caller, removedID)>>
    ELSE <<cd, um>>

\* The test of line 131 left out.
NoLengthCheck(userSessions, newSession) == FALSE

\* Line 131: the filter dropped nothing.
NothingRemoved(userSessions, newSession) == Len(newSession) = Len(userSessions)

removeSession(caller, friendPrincipal) ==
    IF ~containsKey(userChatIDs, caller)
    THEN /\ UNCHANGED store
         /\ last' = Call("removeSession", caller, friendPrincipal, NoText, NoID,
                         Err("NoSession"))
    ELSE LET userSessions == userChatIDs[caller]
             removedID == RemovedID(userSessions, friendPrincipal, 0)
             newSession == SessionsWithout(userSessions, friendPrincipal)
         IN IF NothingRemoved(userSessions, newSession)
            THEN /\ UNCHANGED store
                 /\ last' = Call("removeSession", caller, friendPrincipal, NoText,
                                 NoID, Err("NotFound"))
            ELSE LET ucids == insert(userChatIDs, caller, newSession)
                     after == RemoveCleanup(ucids, chatData, unreadMessages,
                                            caller, friendPrincipal, removedID)
                 IN /\ userChatIDs' = ucids
                    /\ chatData' = after[1]
                    /\ unreadMessages' = after[2]
                    /\ last' = Call("removeSession", caller, friendPrincipal, NoText,
                                    removedID, Ok(TRUE))

(* ---- removeAllSessions, lines 168-204 ---- *)
\* The body of the loop without the filters of lines 187-196.
RemoveAllStepNoPurge(cd, um, caller, session) == <<remove(cd, session.id), um>>

\* Lines 175-198: the body of the loop for one session; userChatIDs is not
\* written before the loop ends, so every lookup of line 175 sees the map the
\* call started with.
RemoveAllStep(cd, um, caller, session) ==
    IF ~containsKey(userChatIDs, session.user)
    THEN <<remove(cd, session.id), um>>
    ELSE IF ~includes(Decoded(userChatIDs[session.user]),
                      LiteralSession(session.id, caller))
    THEN <<remove(cd, session.id),
           PurgeQueue(PurgeQueue(um, session.user, session.id), caller, session.id)>>
    ELSE <<cd, um>>

\* Line 173: the loop over the caller's sessions, in list order.
RECURSIVE RemoveAllLoop(_, _, _, _)
RemoveAllLoop(sessions, cd, um, caller) ==
    IF sessions = << >> THEN <<cd, um>>
    ELSE LET step == RemoveAllStep(cd, um, caller, Head(sessions))
         IN RemoveAllLoop(Tail(sessions), step[1], step[2], caller)

removeAllSessions(caller) ==
    IF ~containsKey(userChatIDs, caller)
    THEN /\ UNCHANGED store
         /\ last' = Call("removeAllSessions", caller, NoPrincipal, NoText, NoID,
                         Err("NoSession"))
    ELSE LET after == RemoveAllLoop(userChatIDs[caller], chatData, unreadMessages, caller)
         IN /\ chatData' = after[1]
            /\ unreadMessages' = after[2]
            /\ userChatIDs' = insert(userChatIDs, caller, << >>)
            /\ last' = Call("removeAllSessions", caller, NoPrincipal, NoText, NoID,
                            Ok(TRUE))

(* ---- sendMessage, lines 212-263 ---- *)
\* Lines 215-223 (286-294, 368-376): ID starts at 0 and forEach assigns it the
\* id of every session naming the principal, so it ends as the last match,
\* or as 0 when there is none.
RECURSIVE FindID(_, _, _)
FindID(sessions, principal, ID) ==
    IF sessions = << >> THEN ID
    ELSE FindID(Tail(sessions), principal,
                IF Head(sessions).user = principal THEN Head(sessions).id ELSE ID)

\* Line 240: the capacity test made before the append.
MessagesExceeded(messages) == Len(messages) > MAX_MSG_PER_SESSION

\* The message put in front of the list instead.
Unshifted(messages, newMessage) == <<newMessage>> \o messages

\* Line 246: currentMessages.Some.push(newMessage).
Pushed(messages, newMessage) == Append(messages, newMessage)

\* The push suppressed when the queue already holds a notification of the id.
EnqueueOnce(um, receiver, newNotification) ==
    IF ~containsKey(um, receiver)
    THEN insert(um, receiver, <<newNotification>>)
    ELSE IF \E i \in 1..Len(um[receiver]) : um[receiver][i].id = newNotification.id
    THEN um
    ELSE insert(um, receiver, Append(um[receiver], newNotification))

\* Lines 255-261: the receiver's queue after the push.
Enqueue(um, receiver, newNotification) ==
    IF ~containsKey(um, receiver)
    THEN insert(um, receiver, <<newNotification>>)
    ELSE insert(um, receiver, Append(um[receiver], newNotification))

sendMessage(caller, receiver, message, time) ==
    /\ UNCHANGED userChatIDs
    /\ IF ~containsKey(userChatIDs, caller)
       THEN /\ UNCHANGED <<chatData, unreadMessages>>
            /\ last' = Call("sendMessage", caller, receiver, message, NoID,
                            Err("NoSession"))
       ELSE LET ID == FindID(userChatIDs[caller], receiver, 0)
                newMessage == Message(caller, receiver, message, time)
                newNotification == MessageNotification(caller, ID, time)
            IN IF ID = 0
               THEN /\ UNCHANGED <<chatData, unreadMessages>>
                    /\ last' = Call("sendMessage", caller, receiver, message, NoID,
                                    Err("NotFound"))
               ELSE IF containsKey(chatData, ID) /\ MessagesExceeded(chatData[ID])
               THEN /\ UNCHANGED <<chatData, unreadMessages>>
                    /\ last' = Call("sendMessage", caller, receiver, message, ID,
                                    Err("MaxMessageReached"))
               ELSE /\ chatData' = IF ~containsKey(chatData, ID)
                                   THEN insert(chatData, ID, <<newMessage>>)
                                   ELSE insert(chatData, ID,
                                               Pushed(chatData[ID], newMessage))
                    /\ unreadMessages' = Enqueue(unreadMessages, receiver,
                                                 newNotification)
                    /\ last' = Call("sendMessage", caller, receiver, message, ID,
                                    Ok(TRUE))

(* ---- viewNotifications, lines 269-277 ---- *)
\* The handler marking the returned notifications as read: it empties the queue.
viewNotificationsClearing(caller) ==
    /\ UNCHANGED <<userChatIDs, chatData>>
    /\ unreadMessages' = IF ~containsKey(unreadMessages, caller) THEN unreadMessages
                         ELSE insert(unreadMessages, caller, << >>)
    /\ last' = Call("viewNotifications", caller, NoPrincipal, NoText, NoID,
                    Ok(IF ~containsKey(unreadMessages, caller)
                       THEN << >> ELSE unreadMessages[caller]))

viewNotifications(caller) ==
    /\ UNCHANGED store
    /\ last' = Call("viewNotifications", caller, NoPrincipal, NoText, NoID,
                    Ok(IF ~containsKey(unreadMessages, caller)
                       THEN << >> ELSE unreadMessages[caller]))

(* ---- viewMessages, lines 284-314 ---- *)
viewMessages(caller, friendPrincipal) ==
    /\ UNCHANGED <<userChatIDs, chatData>>
    /\ IF ~containsKey(userChatIDs, caller)
       THEN /\ UNCHANGED unreadMessages
            /\ last' = Call("viewMessages", caller, friendPrincipal, NoText, NoID,
                            Err("NoSession"))
       ELSE LET ID == FindID(userChatIDs[caller], friendPrincipal, 0)
            IN IF ID = 0 \/ ~containsKey(chatData, ID)
               THEN /\ UNCHANGED unreadMessages
                    /\ last' = Call("viewMessages", caller, friendPrincipal, NoText,
                                    NoID, Err("NotFound"))
               ELSE /\ unreadMessages' =
                          IF ~containsKey(unreadMessages, caller)
                          THEN unreadMessages
                          ELSE insert(unreadMessages, caller,
                                      NotificationsWithout(unreadMessages[caller], ID))
                    /\ last' = Call("viewMessages", caller, friendPrincipal, NoText,
                                    ID, Ok(chatData[ID]))

(* ---- the queries, lines 321-403 ---- *)
\* The lookup written with the zero sentinel of the other handlers.
SentinelMatch(sessions, friendPrincipal) ==
    LET ID == FindID(sessions, friendPrincipal, 0)
    IN IF ID = 0 THEN Err("NotFound") ELSE Ok(ID)

\* Lines 326-331: the loop returns at the first session naming the principal.
RECURSIVE FirstMatch(_, _)
FirstMatch(sessions, friendPrincipal) ==
    IF sessions = << >> THEN Err("NotFound")
    ELSE IF Head(sessions).user = friendPrincipal THEN Ok(Head(sessions).id)
    ELSE FirstMatch(Tail(sessions), friendPrincipal)

getSessionID(caller, friendPrincipal) ==
    /\ UNCHANGED store
    /\ last' = Call("getSessionID", caller, friendPrincipal, NoText, NoID,
                    IF ~containsKey(userChatIDs, caller) THEN Err("NoSession")
                    ELSE FirstMatch(userChatIDs[caller], friendPrincipal))

getAllSessions(caller) ==
    /\ UNCHANGED store
    /\ last' = Call("getAllSessions", caller, NoPrincipal, NoText, NoID,
                    IF ~containsKey(userChatIDs, caller) THEN Err("NoSession")
                    ELSE Ok(userChatIDs[caller]))

getTotalSessions(caller) ==
    /\ UNCHANGED store
    /\ last' = Call("getTotalSessions", caller, NoPrincipal, NoText, NoID,
                    Ok(IF ~containsKey(userChatIDs, caller) THEN 0
                       ELSE Len(userChatIDs[caller])))

getTotalSessionMessages(caller, friendPrincipal) ==
    /\ UNCHANGED store
    /\ last' = Call("getTotalSessionMessages", caller, friendPrincipal, NoText, NoID,
                    IF ~containsKey(userChatIDs, caller) THEN Err("NoSession")
                    ELSE LET ID == FindID(userChatIDs[caller], friendPrincipal, 0)
                         IN IF ID = 0 \/ ~containsKey(chatData, ID)
                            THEN Err("NotFound")
                            ELSE Ok(Len(chatData[ID])))

getMaximumSessions ==
    /\ UNCHANGED store
    /\ last' = Call("getMaximumSessions", NoPrincipal, NoPrincipal, NoText, NoID,
                    Ok(MAXIMUM_SESSIONS))

getMaximumMessages ==
    /\ UNCHANGED store
    /\ last' = Call("getMaximumMessages", NoPrincipal, NoPrincipal, NoText, NoID,
                    Ok(MAX_MSG_PER_SESSION))

Init ==
    /\ userChatIDs = EmptyMap
    /\ chatData = EmptyMap
    /\ unreadMessages = EmptyMap
    /\ now = 0
    /\ updates = 0
    /\ last = Call("init", NoPrincipal, NoPrincipal, NoText, NoID, Ok(TRUE))

\* What every call leaves behind besides its own writes.  The handlers never
\* branch on ic.time(): the calls are explored at one clock value (the calls
\* of one round see the same time), and up to MaxUpdates changes of the maps.
Completed ==
    /\ now' = now
    /\ updates' = IF store' # store THEN updates + 1 ELSE updates
    /\ updates' <= MaxUpdates

\* One call of the canister, run to completion.
Next ==
    \/ \E caller \in Principals, friendPrincipal \in Principals,
          newID \in generateRandomID :
          createSession(caller, friendPrincipal, newID) /\ Completed
    \/ \E caller \in Principals, friendPrincipal \in Principals :
          removeSession(caller, friendPrincipal) /\ Completed
    \/ \E caller \in Principals : removeAllSessions(caller) /\ Completed
    \/ \E caller \in Principals, receiver \in Principals, message \in Texts :
          sendMessage(caller, receiver, message, now) /\ Completed
    \/ \E caller \in Principals : viewNotifications(caller) /\ Completed
    \/ \E caller \in Principals, friendPrincipal \in Principals :
          viewMessages(caller, friendPrincipal) /\ Completed
    \/ \E caller \in Principals, friendPrincipal \in Principals :
          getSessionID(caller, friendPrincipal) /\ Completed
    \/ \E caller \in Principals : getAllSessions(caller) /\ Completed
    \/ \E caller \in Principals : getTotalSessions(caller) /\ Completed
    \/ \E caller \in Principals, friendPrincipal \in Principals :
          getTotalSessionMessages(caller, friendPrincipal) /\ Completed
    \/ getMaximumSessions /\ Completed
    \/ getMaximumMessages /\ Completed

Spec == Init /\ [][Next]_vars

(* ---- the calls under a clock that advances ---- *)
\* ic.time() ranges over 0..MaxTime and never goes back: a call runs at the
\* time of the call before it or later.
MaxTime == 1
\* Under the clock the calls are explored up to MaxClockUpdates calls that
\* change a map.
MaxClockUpdates == 3
CallTimes == {t \in now..MaxTime : t <= now + 1}

CompletedAt(time) ==
    /\ now' = time
    /\ updates' = IF store' # store THEN updates + 1 ELSE updates
    /\ updates' <= MaxClockUpdates

\* One call of a handler that writes a map, at a time of the clock.  The
\* handlers that write no map are left out: they change nothing a later call
\* reads.
NextClock ==
    \/ \E time \in CallTimes, caller \in Principals, friendPrincipal \in Principals,
          newID \in generateRandomID :
          createSession(caller, friendPrincipal, newID) /\ CompletedAt(time)
    \/ \E time \in CallTimes, caller \in Principals, friendPrincipal \in Principals :
          removeSession(caller, friendPrincipal) /\ CompletedAt(time)
    \/ \E time \in CallTimes, caller \in Principals :
          removeAllSessions(caller) /\ CompletedAt(time)
    \/ \E time \in CallTimes, caller \in Principals, receiver \in Principals,
          message \in Texts :
          sendMessage(caller, receiver, message, time) /\ CompletedAt(time)
    \/ \E time \in CallTimes, caller \in Principals, friendPrincipal \in Principals :
          viewMessages(caller, friendPrincipal) /\ CompletedAt(time)

SpecClock == Init /\ [][NextClock]_vars

(* ---- sendMessage write by write ---- *)
\* The reply of a sendMessage call that has stored the Message Log entry
\* (lines 235-248) and not yet the receiver's queue (lines 250-261).
Pending(v) == [tag |-> "Pending", val |-> v]
InSendMessage == last.op = "sendMessage" /\ last.reply.tag = "Pending"

\* Lines 214-248: sendMessage up to and including its write of chatData; the
\* calls that return an error return before any write, as in sendMessage.
sendMessageLog(caller, receiver, message, time) ==
    /\ UNCHANGED <<userChatIDs, unreadMessages>>
    /\ IF ~containsKey(userChatIDs, caller)
       THEN /\ UNCHANGED chatData
            /\ last' = Call("sendMessage", caller, receiver, message, NoID,
                            Err("NoSession"))
       ELSE LET ID == FindID(userChatIDs[caller], receiver, 0)
                newMessage == Message(caller, receiver, message, time)
            IN IF ID = 0
               THEN /\ UNCHANGED chatData
                    /\ last' = Call("sendMessage", caller, receiver, message, NoID,
                                    Err("NotFound"))
               ELSE IF containsKey(chatData, ID) /\ MessagesExceeded(chatData[ID])
               THEN /\ UNCHANGED chatData
                    /\ last' = Call("sendMessage", caller, receiver, message, ID,
                                    Err("MaxMessageReached"))
               ELSE /\ chatData' = IF ~containsKey(chatData, ID)
                                   THEN insert(chatData, ID, <<newMessage>>)
                                   ELSE insert(chatData, ID,
                                               Pushed(chatData[ID], newMessage))
                    /\ last' = Call("sendMessage", caller, receiver, message, ID,
                                    Pending(TRUE))

\* Lines 250-262: the rest of the call, its write of unreadMessages, at the
\* same ic.time().
sendMessageNotify(time) ==
    /\ InSendMessage
    /\ UNCHANGED <<userChatIDs, chatData>>
    /\ unreadMessages' = Enqueue(unreadMessages, last.friend,
                                 MessageNotification(last.caller, last.id, time))
    /\ last' = [last EXCEPT !.reply = Ok(TRUE)]

\* A call starts when no call is under way; a sendMessage that has written
\* the log goes on to write the queue, or stops there.
NextWrites ==
    \/ \E caller \in Principals, friendPrincipal \in Principals,
          newID \in generateRandomID :
          ~InSendMessage /\ createSession(caller, friendPrincipal, newID) /\ Completed
    \/ \E caller \in Principals, friendPrincipal \in Principals :
          ~InSendMessage /\ removeSession(caller, friendPrincipal) /\ Completed
    \/ \E caller \in Principals :
          ~InSendMessage /\ removeAllSessions(caller) /\ Completed
    \/ \E caller \in Principals, receiver \in Principals, message \in Texts :
          ~InSendMessage /\ sendMessageLog(caller, receiver, message, now) /\ Completed
    \/ sendMessageNotify(now) /\ Completed
    \/ \E caller \in Principals, friendPrincipal \in Principals :
          ~InSendMessage /\ viewMessages(caller, friendPrincipal) /\ Completed

SpecWrites == Init /\ [][NextWrites]_vars

(* ======================================================================= *)
(* The claims.  A step is a call of handler h exactly when it sets last' to  *)
(* a record of h; the unprimed maps are then the state the call started in. *)
(* ======================================================================= *)
IsErr(reply, e) == reply.tag = "Err" /\ reply.val = e
QueueOf(um, principal) == IF principal \in DOMAIN um THEN um[principal] ELSE << >>
WithId(queue, k) == SelectSeq(queue, LAMBDA n : n.id = k)
WithoutId(queue, k) == SelectSeq(queue, LAMBDA n : n.id # k)
ListsSessionWith(ucids, p, q) ==
    p \in DOMAIN ucids /\ \E i \in 1..Len(ucids[p]) : ucids[p][i].user = q
MessageTexts(messages) == [i \in 1..Len(messages) |-> messages[i].messageText]
Succeeded(call, op) == call.op = op /\ call.reply.tag = "Ok"

\* The state right after A's createSession(B) and A's sendMessage(B, "hi") on
\* the empty maps: two calls changed a map, A lists one session with B, its
\* log holds the one message and B's queue the one notification.
SentHi ==
    /\ updates = 2
    /\ DOMAIN userChatIDs = {"A"}
    /\ Len(userChatIDs["A"]) = 1
    /\ userChatIDs["A"][1].user = "B"
    /\ DOMAIN chatData = {userChatIDs["A"][1].id}
    /\ MessageTexts(chatData[userChatIDs["A"][1].id]) = <<"hi">>
    /\ DOMAIN unreadMessages = {"B"}

\* C1: End-to-end delivery.  From the empty maps, after A's createSession(B)
\* and A's sendMessage(B, "hi"): B's viewNotifications returns exactly one
\* entry, whose sender is A; B's viewMessages(A) returns the message list
\* ["hi"], and after it B's viewNotifications returns the empty list.
C1_EndToEndDelivery ==
    [][ SentHi =>
          /\ (last'.op = "viewNotifications" /\ last'.caller = "B")
                => /\ Len(last'.reply.val) = 1
                   /\ last'.reply.val[1].sender = "A"
          /\ (last'.op = "viewMessages" /\ last'.caller = "B" /\ last'.friend = "A")
                => /\ last'.reply.tag = "Ok"
                   /\ MessageTexts(last'.reply.val) = <<"hi">>
                   /\ QueueOf(unreadMessages', "B") = << >> ]_vars

\* C2: In every reachable state each caller's session list holds at most one
\* session per counterparty: no two entries of one list name the same user.
C2_UniqueCounterparties ==
    \A p \in DOMAIN userChatIDs :
        \A i, j \in 1..Len(userChatIDs[p]) :
            userChatIDs[p][i].user = userChatIDs[p][j].user => i = j

\* A caller who lists a session was just refused a second one with the same
\* counterparty.
C2_Witness ==
    /\ last.op = "createSession"
    /\ IsErr(last.reply, "DuplicateAttempt")
    /\ ListsSessionWith(userChatIDs, last.caller, last.friend)

\* C3: If removeSession(caller, counterparty) succeeds while the counterparty's
\* directory still lists a session back to the caller, the Message Log entry
\* of the removed id is still present with the same messages, and every
\* notification carrying that id is still in the caller's and in the
\* counterparty's queue.
C3_ReciprocatedRemovalKeepsData ==
    [][ (Succeeded(last', "removeSession")
         /\ ListsSessionWith(userChatIDs', last'.friend, last'.caller))
        => /\ last'.id \in DOMAIN chatData'
           /\ chatData'[last'.id] = chatData[last'.id]
           /\ \A p \in {last'.caller, last'.friend} :
                 WithId(QueueOf(unreadMessages', p), last'.id)
                    = WithId(QueueOf(unreadMessages, p), last'.id) ]_vars

\* C4: If removeSession(caller, counterparty) succeeds while the counterparty
\* has no directory entry, or a directory that lists no session back to the
\* caller, then afterwards the Message Log has no entry for the removed id and
\* neither the caller's nor the counterparty's queue holds a notification
\* carrying that id.
C4_UnreciprocatedRemovalPurges ==
    [][ (Succeeded(last', "removeSession")
         /\ ~ListsSessionWith(userChatIDs', last'.friend, last'.caller))
        => /\ last'.id \notin DOMAIN chatData'
           /\ \A p \in {last'.caller, last'.friend} :
                 WithId(QueueOf(unreadMessages', p), last'.id) = << >> ]_vars

\* The id of the session that p's list holds with q (p lists exactly one).
SessionIdWith(ucids, p, q) ==
    ucids[p][CHOOSE i \in 1..Len(ucids[p]) : ucids[p][i].user = q].id

\* C5: createSession by a caller whose list already holds MAXIMUM_SESSIONS
\* sessions is rejected with MaxSessionsReached, while createSession with a
\* fresh counterparty below that count succeeds; so in every reachable state
\* no caller's session list holds more than MAXIMUM_SESSIONS sessions.
C5_SessionCap ==
    /\ [](\A p \in DOMAIN userChatIDs : Len(userChatIDs[p]) <= MAXIMUM_SESSIONS)
    /\ [][ (last'.op = "createSession" /\ last'.caller \in DOMAIN userChatIDs)
           => LET n == Len(userChatIDs[last'.caller])
                  fresh == ~ListsSessionWith(userChatIDs, last'.caller, last'.friend)
              IN /\ n = MAXIMUM_SESSIONS
                       => IsErr(last'.reply, "MaxSessionsReached")
                 /\ (n < MAXIMUM_SESSIONS /\ fresh) => last'.reply.tag = "Ok" ]_vars

\* C6: In a session the caller lists, sendMessage succeeds while the log holds
\* at most MAX_MSG_PER_SESSION messages (the first MAX_MSG_PER_SESSION+1 calls
\* of a fresh session) and the next call fails with MaxMessageReached; so in
\* every reachable state every Message Log entry has length at most
\* MAX_MSG_PER_SESSION+1.
C6_MessageCap ==
    /\ [](\A k \in DOMAIN chatData : Len(chatData[k]) <= MAX_MSG_PER_SESSION + 1)
    /\ [][ (last'.op = "sendMessage"
            /\ ListsSessionWith(userChatIDs, last'.caller, last'.friend))
           => LET k == SessionIdWith(userChatIDs, last'.caller, last'.friend)
              IN /\ k \in DOMAIN chatData
                 /\ Len(chatData[k]) <= MAX_MSG_PER_SESSION
                       => last'.reply.tag = "Ok"
                 /\ Len(chatData[k]) = MAX_MSG_PER_SESSION + 1
                       => IsErr(last'.reply, "MaxMessageReached") ]_vars

\* C7: A successful viewMessages(caller, counterparty) returns the Message Log
\* list of the caller's session with the counterparty, removes from the
\* caller's queue every notification of that session id, and leaves unchanged,
\* in content and order, the caller's notifications of other ids, every other
\* principal's queue, the Session Directory and the Message Log.
C7_ViewMessagesEffect ==
    [][ Succeeded(last', "viewMessages")
        => LET c == last'.caller
               k == SessionIdWith(userChatIDs, c, last'.friend)
           IN /\ last'.id = k
              /\ last'.reply.val = chatData[k]
              /\ QueueOf(unreadMessages', c) = WithoutId(QueueOf(unreadMessages, c), k)
              /\ DOMAIN unreadMessages' = DOMAIN unreadMessages
              /\ \A p \in DOMAIN unreadMessages \ {c} :
                    unreadMessages'[p] = unreadMessages[p]
              /\ userChatIDs' = userChatIDs
              /\ chatData' = chatData ]_vars

\* A caller has viewed a session that holds a message to itself, and its
\* queue keeps the notification of another session.
C7_Witness ==
    /\ Succeeded(last, "viewMessages")
    /\ last.caller = last.friend
    /\ last.reply.val # << >>
    /\ QueueOf(unreadMessages, last.caller) # << >>
    /\ WithId(QueueOf(unreadMessages, last.caller), last.id) = << >>

\* C8: Every session id that createSession stores in a directory is non-zero,
\* so sendMessage, viewMessages and getTotalSessionMessages addressed to a
\* listed counterparty never report NotFound through the zero sentinel.
C8_SessionIdsNonZero ==
    \A p \in DOMAIN userChatIDs :
        \A i \in 1..Len(userChatIDs[p]) : userChatIDs[p][i].id # 0

\* C9: After a successful createSession(caller, counterparty), an immediately
\* following getSessionID(caller, counterparty) returns Ok with the id that
\* createSession generated, and that id is a key of the Message Log mapped to
\* the empty list.
C9_CreateThenGetSessionID ==
    [][ (Succeeded(last, "createSession")
         /\ last'.op = "getSessionID"
         /\ last'.caller = last.caller
         /\ last'.friend = last.friend)
        => /\ last'.reply.tag = "Ok"
           /\ last'.reply.val = last.id
           /\ last.id \in DOMAIN chatData'
           /\ chatData'[last.id] = << >> ]_vars

\* getSessionID has answered with an id when the only call that changed a map
\* so far is a createSession.
C9_Witness ==
    /\ Succeeded(last, "getSessionID")
    /\ updates = 1
    /\ ListsSessionWith(userChatIDs, last.caller, last.friend)
    /\ chatData[last.reply.val] = << >>

\* C10: Of two removeSession(caller, counterparty) calls in a row, the first
\* succeeding, the second returns NotFound and leaves the three maps as the
\* first call left them.
C10_SecondRemoveNotFound ==
    [][ (Succeeded(last, "removeSession")
         /\ last'.op = "removeSession"
         /\ last'.caller = last.caller
         /\ last'.friend = last.friend)
        => /\ IsErr(last'.reply, "NotFound")
           /\ store' = store ]_vars

\* A removeSession was answered NotFound by a directory that a createSession
\* and a removal, the only two calls that changed a map, have left empty.
C10_Witness ==
    /\ last.op = "removeSession"
    /\ IsErr(last.reply, "NotFound")
    /\ updates = 2
    /\ last.caller \in DOMAIN userChatIDs
    /\ userChatIDs[last.caller] = << >>

\* The three maps after a removeSession(caller, friendPrincipal) call on the
\* maps st: those of a successful call, or st itself when the call fails.
RemoveSessionResult(st, caller, friendPrincipal) ==
    IF ~ListsSessionWith(st[1], caller, friendPrincipal) THEN st
    ELSE LET ucids == insert(st[1], caller,
                             SessionsWithout(st[1][caller], friendPrincipal))
             after == RemoveCleanup(ucids, st[2], st[3], caller, friendPrincipal,
                                    RemovedID(st[1][caller], friendPrincipal, 0))
         IN <<ucids, after[1], after[2]>>

\* removeSession(caller, c) called once for each counterparty c of sessions,
\* in list order.
RECURSIVE RemoveEach(_, _, _)
RemoveEach(st, caller, sessions) ==
    IF sessions = << >> THEN st
    ELSE RemoveEach(RemoveSessionResult(st, caller, Head(sessions).user),
                    caller, Tail(sessions))

\* C11: removeAllSessions(caller) with a directory entry leaves the three maps
\* as calling removeSession(caller, c) once for each counterparty c of the
\* caller's list, in list order, leaves them (a successful removeSession being
\* the call RemoveSessionResult describes), and afterwards the caller's
\* directory entry still exists and is the empty list.
C11_RemoveAllIsRemoveEach ==
    [][ /\ Succeeded(last', "removeSession")
           => store' = RemoveSessionResult(store, last'.caller, last'.friend)
        /\ Succeeded(last', "removeAllSessions")
           => /\ store' = RemoveEach(store, last'.caller, userChatIDs[last'.caller])
              /\ last'.caller \in DOMAIN userChatIDs'
              /\ userChatIDs'[last'.caller] = << >> ]_vars

\* removeAllSessions has answered Ok where four calls changed a map, the
\* caller's list is empty, another principal still lists a session and has a
\* queue that was emptied.
C11_Witness ==
    /\ Succeeded(last, "removeAllSessions")
    /\ updates = 4
    /\ userChatIDs[last.caller] = << >>
    /\ \E p \in DOMAIN userChatIDs \ {last.caller} :
          /\ userChatIDs[p] # << >>
          /\ p \in DOMAIN unreadMessages
          /\ unreadMessages[p] = << >>

\* list is old with exactly one element more, at its end.
OneMoreAtEnd(old, list) ==
    /\ Len(list) = Len(old) + 1
    /\ SubSeq(list, 1, Len(old)) = old

\* C12: A successful sendMessage(caller, receiver, text) appends exactly one
\* message {sender: caller, receiver, text} at the end of the Message Log entry
\* of the caller's session with receiver, appends exactly one notification
\* {sender: caller, id: that session id} at the end of the receiver's queue
\* (created if absent; no cap, no duplicate suppression), and changes nothing
\* else: earlier messages and notifications keep content and order, and the
\* Session Directory is unchanged.
C12_SendAppendsOneOfEach ==
    [][ Succeeded(last', "sendMessage")
        => LET c == last'.caller
               r == last'.friend
               k == SessionIdWith(userChatIDs, c, r)
           IN /\ last'.id = k
              /\ k \in DOMAIN chatData
              /\ DOMAIN chatData' = DOMAIN chatData
              /\ OneMoreAtEnd(chatData[k], chatData'[k])
              /\ LET m == chatData'[k][Len(chatData'[k])]
                 IN m.sender = c /\ m.receiver = r /\ m.messageText = last'.text
              /\ \A j \in DOMAIN chatData \ {k} : chatData'[j] = chatData[j]
              /\ DOMAIN unreadMessages' = DOMAIN unreadMessages \cup {r}
              /\ OneMoreAtEnd(QueueOf(unreadMessages, r), unreadMessages'[r])
              /\ LET n == unreadMessages'[r][Len(unreadMessages'[r])]
                 IN n.sender = c /\ n.id = k
              /\ \A p \in DOMAIN unreadMessages \ {r} :
                    unreadMessages'[p] = unreadMessages[p]
              /\ userChatIDs' = userChatIDs ]_vars

\* A second message was sent in a session at a later time than the first, and
\* the receiver's queue holds the two notifications of the session.
C12_Witness ==
    /\ Succeeded(last, "sendMessage")
    /\ Len(chatData[last.id]) = 2
    /\ chatData[last.id][1].messageTime < chatData[last.id][2].messageTime
    /\ Len(WithId(QueueOf(unreadMessages, last.friend), last.id)) = 2

ReadOnlyHandlers ==
    {"viewNotifications", "getSessionID", "getAllSessions", "getTotalSessions",
     "getTotalSessionMessages", "getMaximumSessions", "getMaximumMessages"}

\* C13: viewNotifications, getSessionID, getAllSessions, getTotalSessions,
\* getTotalSessionMessages, getMaximumSessions and getMaximumMessages leave the
\* Session Directory, the Message Log and every Notification Queue unchanged;
\* viewNotifications returns the caller's queue, or the empty list when the
\* caller has none, and clears no notification.
C13_QueriesChangeNothing ==
    [][ last'.op \in ReadOnlyHandlers
        => /\ store' = store
           /\ last'.op = "viewNotifications"
                 => /\ last'.reply.tag = "Ok"
                    /\ last'.reply.val = QueueOf(unreadMessages, last'.caller) ]_vars

\* viewNotifications returned a queue that is not empty, and the caller's
\* queue still holds it.
C13_Witness ==
    /\ last.op = "viewNotifications"
    /\ last.reply.val # << >>
    /\ QueueOf(unreadMessages, last.caller) = last.reply.val

\* The errors the handlers that write a map may return.
ErrorsOf(op) ==
    CASE op = "createSession" -> {"MaxSessionsReached", "DuplicateAttempt"}
      [] op = "removeSession" -> {"NoSession", "NotFound"}
      [] op = "removeAllSessions" -> {"NoSession"}
      [] op = "sendMessage" -> {"NoSession", "NotFound", "MaxMessageReached"}
      [] op = "viewMessages" -> {"NoSession", "NotFound"}
      [] OTHER -> {}

\* C14: Every call of createSession, removeSession, removeAllSessions,
\* sendMessage or viewMessages that returns an error returns one of the errors
\* listed for the handler and leaves the Session Directory, the Message Log
\* and every Notification Queue exactly as they were before the call.
C14_ErrorsChangeNothing ==
    [][ (last'.reply.tag = "Err" /\ ErrorsOf(last'.op) # {})
        => /\ last'.reply.val \in ErrorsOf(last'.op)
           /\ store' = store ]_vars

\* A createSession was refused by a caller whose list is over the capacity,
\* while an id was free for it.
C14_Witness ==
    /\ last.op = "createSession"
    /\ IsErr(last.reply, "MaxSessionsReached")
    /\ Len(userChatIDs[last.caller]) = MAXIMUM_SESSIONS + 1
    /\ generateRandomID \ DOMAIN chatData # {}

\* The message of the sendMessage call that appended notification n to the
\* queue of principal r is in the Message Log entry of n's session id.
MessageLogged(r, n) ==
    /\ n.id \in DOMAIN chatData
    /\ \E i \in 1..Len(chatData[n.id]) :
          /\ chatData[n.id][i].sender = n.sender
          /\ chatData[n.id][i].receiver = r
          /\ chatData[n.id][i].messageTime = n.messageTime

\* C15: sendMessage writes the Message Log first and the Notification Queue
\* second: where the call has made the first write only, the message is the
\* last of the log and the receiver's queue holds fewer notifications of the
\* session than the log holds messages; and in no reachable state, those
\* included, does a queue hold a notification whose message is missing from
\* the log.
C15_LogBeforeNotification ==
    /\ InSendMessage
       => /\ last.id \in DOMAIN chatData
          /\ chatData[last.id] # << >>
          /\ LET m == chatData[last.id][Len(chatData[last.id])]
             IN /\ m.sender = last.caller
                /\ m.receiver = last.friend
                /\ m.messageText = last.text
          /\ Len(WithId(QueueOf(unreadMessages, last.friend), last.id))
                < Len(chatData[last.id])
    /\ \A r \in DOMAIN unreadMessages :
          \A i \in 1..Len(unreadMessages[r]) : MessageLogged(r, unreadMessages[r][i])

\* Every session of every directory entry has its id as a Message Log key.
DirectoryLogged ==
    \A p \in DOMAIN userChatIDs :
        \A i \in 1..Len(userChatIDs[p]) : userChatIDs[p][i].id \in DOMAIN chatData

\* C16: in every state after completed calls every listed session has its id
\* as a key of the Message Log; so a viewMessages or getTotalSessionMessages
\* call that replies NotFound found no session id (the lookup ended at 0), and
\* a sendMessage call that succeeds found the log entry of its session present
\* before its write.
C16_ListedSessionsHaveLogs ==
    /\ []DirectoryLogged
    /\ [][ /\ ( /\ last'.op \in {"viewMessages", "getTotalSessionMessages"}
                /\ IsErr(last'.reply, "NotFound") )
              => FindID(userChatIDs[last'.caller], last'.friend, 0) = 0
           /\ Succeeded(last', "sendMessage")
              => /\ last'.id = FindID(userChatIDs[last'.caller], last'.friend, 0)
                 /\ last'.id \in DOMAIN chatData ]_vars

\* A removeSession has just dropped one of the caller's two sessions: the
\* session that stays listed still has its log.
C16_Witness ==
    /\ Succeeded(last, "removeSession")
    /\ Len(userChatIDs[last.caller]) = 1
    /\ userChatIDs[last.caller][1].id \in DOMAIN chatData
    /\ Len(chatData[userChatIDs[last.caller][1].id]) = 1

IsPrefix(old, list) ==
    /\ Len(old) <= Len(list)
    /\ \A i \in 1..Len(old) : list[i] = old[i]

\* C17: a Message Log entry is append-only while it exists: in every step of
\* a call where session id k is a log key before and after, the list before
\* is a prefix of the list after; and with a clock that never runs backwards
\* the messageTime values of a list never decrease along the list.
C17_LogAppendOnly ==
    /\ [](\A k \in DOMAIN chatData :
            \A i \in 1..Len(chatData[k]), j \in 1..Len(chatData[k]) :
                i < j => chatData[k][i].messageTime <= chatData[k][j].messageTime)
    /\ [][ \A k \in DOMAIN chatData \cap DOMAIN chatData' :
              IsPrefix(chatData[k], chatData'[k]) ]_vars

\* A second message has just been appended to a log, at a later time than
\* the first.
C17_Witness ==
    /\ Succeeded(last, "sendMessage")
    /\ last.id \in DOMAIN chatData
    /\ Len(chatData[last.id]) = 2
    /\ chatData[last.id][1].messageTime < chatData[last.id][2].messageTime

\* The places of the Session Directory: caller p, index i of p's list.
DirectoryPlaces ==
    UNION {{<<p, i>> : i \in 1..Len(userChatIDs[p])} : p \in DOMAIN userChatIDs}

\* C18: in every state after completed calls no two session records of the
\* Session Directory, in one caller's list or in two callers' lists, carry
\* the same session id.
C18_SessionIdsDistinct ==
    \A pl \in DirectoryPlaces, ql \in DirectoryPlaces :
        pl # ql => userChatIDs[pl[1]][pl[2]].id # userChatIDs[ql[1]][ql[2]].id

\* A lists a session with B and B lists a session with A, each created by
\* its own createSession; the second one has just been created.
C18_Witness ==
    /\ Succeeded(last, "createSession")
    /\ ListsSessionWith(userChatIDs, "A", "B")
    /\ ListsSessionWith(userChatIDs, "B", "A")
    /\ SessionIdWith(userChatIDs, "A", "B") # SessionIdWith(userChatIDs, "B", "A")

\* C19: in every state after completed calls every notification of every
\* queue carries a session id that is a key of the Message Log and that the
\* directory of the notification's sender lists; and a createSession that
\* succeeds leaves no notification carrying the id of the session it created.
C19_NotificationsReferToSessions ==
    /\ [](\A r \in DOMAIN unreadMessages :
            \A i \in 1..Len(unreadMessages[r]) :
                LET n == unreadMessages[r][i]
                IN /\ n.id \in DOMAIN chatData
                   /\ n.sender \in DOMAIN userChatIDs
                   /\ \E j \in 1..Len(userChatIDs[n.sender]) :
                         userChatIDs[n.sender][j].id = n.id)
    /\ [][ Succeeded(last', "createSession")
           => \A r \in DOMAIN unreadMessages' :
                 WithId(unreadMessages'[r], last'.id) = << >> ]_vars

\* C20: in every state after completed calls every message of the Message
\* Log entry of session id k has as sender a caller whose directory lists the
\* session with id k and as receiver that session's counterparty; so all
\* messages of one entry go from the same sender to the same receiver.
C20_LogHoldsOneDirection ==
    \A k \in DOMAIN chatData :
        /\ \A i \in 1..Len(chatData[k]) :
              \E pl \in DirectoryPlaces :
                  /\ userChatIDs[pl[1]][pl[2]].id = k
                  /\ chatData[k][i].sender = pl[1]
                  /\ chatData[k][i].receiver = userChatIDs[pl[1]][pl[2]].user
        /\ \A i \in 1..Len(chatData[k]), j \in 1..Len(chatData[k]) :
              /\ chatData[k][i].sender = chatData[k][j].sender
              /\ chatData[k][i].receiver = chatData[k][j].receiver

\* A second message has just been stored in the log of a session between
\* two different principals, while the counterparty lists its own session
\* with the sender.
C20_Witness ==
    /\ Succeeded(last, "sendMessage")
    /\ last.caller # last.friend
    /\ last.id \in DOMAIN chatData
    /\ Len(chatData[last.id]) = 2
    /\ ListsSessionWith(userChatIDs, last.friend, last.caller)

====
